---- MODULE Spec2Model ----
(***************************************************************************)
(* A model of opendrop's command line front end (src/opendrop/cli.py):     *)
(*                                                                         *)
(*   - `find`: the main thread subscribes to the service browser, the      *)
(*     browser thread starts one thread per announced service, every such  *)
(*     thread (_send_discover) probes the peer and appends a record to     *)
(*     self.discover, and Ctrl+C unsubscribes and dumps self.discover to   *)
(*     the discovery report.                                               *)
(*   - `send`: _get_receiver_info loads the report and resolves            *)
(*     self.receiver by index, id or name; then Ask and Upload are sent.   *)
(*                                                                         *)
(* Python strings that the code measures, parses or compares are sequences *)
(* of one-character strings; values whose Python type varies at run time   *)
(* (None or str, str or int) carry a type tag.                             *)
(***************************************************************************)
EXTENDS Integers, Sequences, FiniteSets, TLC

VARIABLES
    mainPc,       \* find(): position of the main thread
    browser,      \* self.browser: "None" or "AirDropBrowser"
    subscribed,   \* the browser delivers callbacks (started and not stopped)
    discover,     \* self.discover: the in-memory catalog
    lock,         \* self.lock: 0 when free, else the probe thread holding it
    probes,       \* the _send_discover threads, in the order they were started
    report,       \* the file at config.discovery_report
    dumpPos,      \* json.dump: position of the list iterator over self.discover
    interrupts,   \* KeyboardInterrupts raised so far in the main thread
    history,      \* what the main thread did to the browser and the report, in order
    sendPc,       \* send(): position of the main thread
    receiver,     \* self.receiver
    infos,        \* _get_receiver_info: the loaded report
    info,         \* send(): the value returned by _get_receiver_info
    age,          \* _get_receiver_info: age of the report in seconds
    outcome,      \* how _get_receiver_info ended
    sent,         \* send(): log lines and network exchanges, in order
    argsReceiver  \* args.receiver: the token given on the command line

findVars == <<mainPc, browser, subscribed, discover, lock, probes, dumpPos,
              interrupts, history>>
sendVars == <<sendPc, receiver, infos, info, age, outcome, sent, argsReceiver>>
vars == <<mainPc, browser, subscribed, discover, lock, probes, report, dumpPos,
          interrupts, history, sendPc, receiver, infos, info, age, outcome, sent,
          argsReceiver>>

----------------------------------------------------------------------------
(* Bounds of the model.                                                    *)

\* Service announcements delivered during one find run.
MaxProbes == 2
\* KeyboardInterrupts raised during one find run.
MaxInterrupts == 2
\* Length of the reports the resolver is run on.
MaxReport == 2

----------------------------------------------------------------------------
(* Python values.                                                          *)

None == [t |-> "NoneType"]
PyStr(s) == [t |-> "str", v |-> s]
PyInt(n) == [t |-> "int", v |-> n]

\* Python's ==, for the values above: values of different types are unequal.
PyEq(a, b) == a.t = b.t /\ (a.t = "NoneType" \/ a.v = b.v)

Rep(c, n) == [k \in 1..n |-> c]

----------------------------------------------------------------------------
(* The service browser's announcements (zeroconf ServiceInfo).             *)

\* AirDropReceiverFlags.SUPPORTS_DISCOVER_MAYBE (opendrop/config.py).
SUPPORTS_DISCOVER_MAYBE == 128

DotLocal == <<".", "l", "o", "c", "a", "l">>

\* The announcements the browser may deliver.  properties is a dict: the
\* flags key is present or not.
Infos == <<
    [name |-> Rep("a", 12) \o DotLocal, server |-> "a.local", addresses |-> <<"fe80::1">>,
     port |-> 8770, properties |-> [flags |-> 1]],
    [name |-> Rep("b", 12) \o DotLocal, server |-> "b.local", addresses |-> <<"fe80::2">>,
     port |-> 8770, properties |-> [other |-> 0]],
    [name |-> Rep("c", 12) \o DotLocal, server |-> "c.local", addresses |-> << >>,
     port |-> 8770, properties |-> [flags |-> 1019]],
    [name |-> Rep("d", 12) \o DotLocal, server |-> "d.local", addresses |-> <<"fe80::4">>,
     port |-> 8770, properties |-> [flags |-> 1019]] >>

\* What AirDropClient.send_discover may do: return a receiver name, an empty
\* name or None, or raise TimeoutError.
TimeoutError == [t |-> "TimeoutError"]
DiscoverResults == {PyStr(<<"B", "o", "b">>), PyStr(<< >>), None, TimeoutError}

\* What each announced peer does when sent a discover request: the second
\* answers with its name or not in time, the fourth without a usable name.
Answers == <<
    DiscoverResults,
    {PyStr(<<"B", "o", "b">>), TimeoutError},
    DiscoverResults,
    {PyStr(<< >>), None} >>

\* s.split(".")[0]: the part of s before its first ".".
RECURSIVE SplitFirst(_)
SplitFirst(s) ==
    IF s = << >> \/ Head(s) = "." THEN << >>
    ELSE <<Head(s)>> \o SplitFirst(Tail(s))

\* flags & bit, for a bit that is a power of two.
BitAnd(flags, bit) == ((flags \div bit) % 2) * bit

\* info.parsed_addresses()[0]; "IndexError" when there is no address.
Address(i) == IF Len(i.addresses) = 0 THEN "IndexError" ELSE i.addresses[1]

Identifier(i) == SplitFirst(i.name)

\* The mutant of Flags: without the flags property no flag is set.
FlagsDefaultNone(i) ==
    IF "flags" \in DOMAIN i.properties THEN i.properties.flags
    ELSE 0

\* int(info.properties[b"flags"]), or the default on KeyError.
Flags(i) ==
    IF "flags" \in DOMAIN i.properties THEN i.properties.flags
    ELSE SUPPORTS_DISCOVER_MAYBE

----------------------------------------------------------------------------
(* JSON, as json.dump writes and json.load reads the report.               *)

JNull == [j |-> "null"]
JString(s) == [j |-> "string", v |-> s]
JNumber(n) == [j |-> "number", v |-> n]
JBool(b) == [j |-> IF b THEN "true" ELSE "false"]

\* json.dump of one node_info dict.
JsonObject(node) ==
    [name |-> IF node.name.t = "NoneType" THEN JNull ELSE JString(node.name.v),
     address |-> JString(node.address),
     port |-> JNumber(node.port),
     id |-> JString(node.id),
     flags |-> JNumber(node.flags),
     discoverable |-> JBool(node.discoverable)]

\* json.load of one object of the report.
PyDict(obj) ==
    [name |-> IF obj.name.j = "null" THEN None ELSE PyStr(obj.name.v),
     address |-> obj.address.v,
     port |-> obj.port.v,
     id |-> obj.id.v,
     flags |-> obj.flags.v,
     discoverable |-> (obj.discoverable.j = "true")]

JsonLoad(objs) == [k \in 1..Len(objs) |-> PyDict(objs[k])]

\* The report file: absent, or the JSON array written so far (complete once
\* the closing bracket is written).
NoFile == [exists |-> FALSE, complete |-> FALSE, objs |-> << >>]
Truncated == [exists |-> TRUE, complete |-> FALSE, objs |-> << >>]
ReportFile(objs) == [exists |-> TRUE, complete |-> TRUE, objs |-> objs]

\* A report left by an earlier run.
OldReport ==
    ReportFile(<<JsonObject([name |-> PyStr(<<"O", "l", "d">>), address |-> "fe80::9",
                             port |-> 8770, id |-> Rep("e", 12), flags |-> 1019,
                             discoverable |-> TRUE])>>)

----------------------------------------------------------------------------
(* find: the probe threads (_send_discover).                               *)

Thread(k) == [pc |-> "start", info |-> k, name |-> None, net |-> "none",
              index |-> -1, pos |-> -1, logged |-> "none"]

Discoverable(p) == probes[p].name.t # "NoneType"

\* node_info, lines 264-271.
NodeInfo(p) ==
    LET i == Infos[probes[p].info] IN
    [name |-> probes[p].name, address |-> Address(i), port |-> i.port,
     id |-> Identifier(i), flags |-> Flags(i), discoverable |-> Discoverable(p)]

\* _found_receiver: the browser's callback starts a thread for the service.
FoundReceiver(k) ==
    /\ subscribed
    /\ Len(probes) < MaxProbes
    /\ probes' = Append(probes, Thread(k))
    /\ UNCHANGED <<mainPc, browser, subscribed, discover, lock, report, dumpPos,
                   interrupts, history>>
    /\ UNCHANGED sendVars

\* The mutant of ProbeBegin: a service without an address is probed as well.
ProbeBeginAnyAddress(p) ==
    /\ probes[p].pc = "start"
    /\ LET i == Infos[probes[p].info] IN
       probes' = [probes EXCEPT ![p] =
           IF BitAnd(Flags(i), SUPPORTS_DISCOVER_MAYBE) # 0
           THEN [@ EXCEPT !.pc = "discover"]
           ELSE [@ EXCEPT !.pc = "index", !.name = None]]
    /\ UNCHANGED <<mainPc, browser, subscribed, discover, lock, report, dumpPos,
                   interrupts, history>>
    /\ UNCHANGED sendVars

\* Lines 234-252 and 259-260: address, id, flags; no address ends the thread,
\* flags without the bit skip the discover request.
ProbeBegin(p) ==
    /\ probes[p].pc = "start"
    /\ LET i == Infos[probes[p].info] IN
       probes' = [probes EXCEPT ![p] =
           IF Address(i) = "IndexError"
           THEN [@ EXCEPT !.pc = "done", !.logged = "warning"]
           ELSE IF BitAnd(Flags(i), SUPPORTS_DISCOVER_MAYBE) # 0
           THEN [@ EXCEPT !.pc = "discover"]
           ELSE [@ EXCEPT !.pc = "index", !.name = None]]
    /\ UNCHANGED <<mainPc, browser, subscribed, discover, lock, report, dumpPos,
                   interrupts, history>>
    /\ UNCHANGED sendVars

\* The mutant of ProbeDiscover: TimeoutError is not caught and ends the thread.
ProbeDiscoverUncaught(p) ==
    /\ probes[p].pc = "discover"
    /\ \E r \in Answers[probes[p].info] :
        probes' = [probes EXCEPT ![p] =
            IF r.t = "TimeoutError"
            THEN [@ EXCEPT !.pc = "done", !.net = "timeout"]
            ELSE [@ EXCEPT !.pc = "index", !.name = r, !.net = "returned"]]
    /\ UNCHANGED <<mainPc, browser, subscribed, discover, lock, report, dumpPos,
                   interrupts, history>>
    /\ UNCHANGED sendVars

\* Lines 253-258: client.send_discover returns or times out.
ProbeDiscover(p) ==
    /\ probes[p].pc = "discover"
    /\ \E r \in Answers[probes[p].info] :
        probes' = [probes EXCEPT ![p] =
            IF r.t = "TimeoutError"
            THEN [@ EXCEPT !.pc = "index", !.name = None, !.net = "timeout"]
            ELSE [@ EXCEPT !.pc = "index", !.name = r, !.net = "returned"]]
    /\ UNCHANGED <<mainPc, browser, subscribed, discover, lock, report, dumpPos,
                   interrupts, history>>
    /\ UNCHANGED sendVars

\* Lines 261-271: index = len(self.discover), node_info.
ProbeIndex(p) ==
    /\ probes[p].pc = "index"
    /\ probes' = [probes EXCEPT ![p].pc = "acquire", ![p].index = Len(discover)]
    /\ UNCHANGED <<mainPc, browser, subscribed, discover, lock, report, dumpPos,
                   interrupts, history>>
    /\ UNCHANGED sendVars

\* The mutant of ProbeAcquire: the thread goes on without the lock being free.
ProbeAcquireNoWait(p) ==
    /\ probes[p].pc = "acquire"
    /\ lock' = p
    /\ probes' = [probes EXCEPT ![p].pc = "append"]
    /\ UNCHANGED <<mainPc, browser, subscribed, discover, report, dumpPos,
                   interrupts, history>>
    /\ UNCHANGED sendVars

\* Line 272: self.lock.acquire() blocks while another thread holds the lock.
ProbeAcquire(p) ==
    /\ probes[p].pc = "acquire"
    /\ lock = 0
    /\ lock' = p
    /\ probes' = [probes EXCEPT ![p].pc = "append"]
    /\ UNCHANGED <<mainPc, browser, subscribed, discover, report, dumpPos,
                   interrupts, history>>
    /\ UNCHANGED sendVars

\* The mutant of ProbeAppend: the record is stored at the index read earlier.
ProbeAppendAtIndex(p) ==
    /\ probes[p].pc = "append"
    /\ discover' = IF probes[p].index < Len(discover)
                   THEN [discover EXCEPT ![probes[p].index + 1] = NodeInfo(p)]
                   ELSE Append(discover, NodeInfo(p))
    /\ probes' = [probes EXCEPT ![p].pc = "log", ![p].pos = probes[p].index]
    /\ UNCHANGED <<mainPc, browser, subscribed, lock, report, dumpPos,
                   interrupts, history>>
    /\ UNCHANGED sendVars

\* Line 273: self.discover.append(node_info).  pos records where it went.
ProbeAppend(p) ==
    /\ probes[p].pc = "append"
    /\ discover' = Append(discover, NodeInfo(p))
    /\ probes' = [probes EXCEPT ![p].pc = "log", ![p].pos = Len(discover)]
    /\ UNCHANGED <<mainPc, browser, subscribed, lock, report, dumpPos,
                   interrupts, history>>
    /\ UNCHANGED sendVars

\* Lines 274-277: "Found  index ..." or "... is not discoverable".
ProbeLog(p) ==
    /\ probes[p].pc = "log"
    /\ probes' = [probes EXCEPT ![p].pc = "release",
                                ![p].logged = IF Discoverable(p) THEN "found" ELSE "debug"]
    /\ UNCHANGED <<mainPc, browser, subscribed, discover, lock, report, dumpPos,
                   interrupts, history>>
    /\ UNCHANGED sendVars

\* The mutant of ProbeRelease: the thread ends without releasing the lock.
ProbeReleaseForgotten(p) ==
    /\ probes[p].pc = "release"
    /\ probes' = [probes EXCEPT ![p].pc = "done"]
    /\ UNCHANGED <<mainPc, browser, subscribed, discover, lock, report, dumpPos,
                   interrupts, history>>
    /\ UNCHANGED sendVars

\* Line 278: self.lock.release().
ProbeRelease(p) ==
    /\ probes[p].pc = "release"
    /\ lock' = 0
    /\ probes' = [probes EXCEPT ![p].pc = "done"]
    /\ UNCHANGED <<mainPc, browser, subscribed, discover, report, dumpPos,
                   interrupts, history>>
    /\ UNCHANGED sendVars

----------------------------------------------------------------------------
(* find: the main thread (find, and the handler in __init__).              *)

\* Line 217: self.browser = AirDropBrowser(self.config).
FindCreate ==
    /\ mainPc = "idle"
    /\ browser' = "AirDropBrowser"
    /\ mainPc' = "created"
    /\ UNCHANGED <<subscribed, discover, lock, probes, report, dumpPos,
                   interrupts, history>>
    /\ UNCHANGED sendVars

\* Line 218: self.browser.start(callback_add=self._found_receiver).
FindStart ==
    /\ mainPc = "created"
    /\ subscribed' = TRUE
    /\ history' = Append(history, "start")
    /\ mainPc' = "started"
    /\ UNCHANGED <<browser, discover, lock, probes, report, dumpPos, interrupts>>
    /\ UNCHANGED sendVars

\* Lines 219-220: the try block is entered; threading.Event().wait() blocks.
FindWait ==
    /\ mainPc = "started"
    /\ mainPc' = "wait"
    /\ UNCHANGED <<browser, subscribed, discover, lock, probes, report, dumpPos,
                   interrupts, history>>
    /\ UNCHANGED sendVars

\* Ctrl+C raises KeyboardInterrupt in the main thread.  Inside the try block
\* (lines 221-223) it is swallowed and the finally block runs; anywhere else
\* in find it leaves find for the handler of __init__ (line 209), and inside
\* that handler it ends the program.
KeyboardInterrupt ==
    /\ interrupts < MaxInterrupts
    /\ mainPc \in {"idle", "created", "started", "wait", "stop", "open", "dump", "except"}
    /\ interrupts' = interrupts + 1
    /\ mainPc' = IF mainPc = "wait" THEN "stop"
                 ELSE IF mainPc = "except" THEN "exit"
                 ELSE "except"
    /\ history' = Append(history, IF mainPc = "wait" THEN "interrupt" ELSE "abort")
    /\ UNCHANGED <<browser, subscribed, discover, lock, probes, report, dumpPos>>
    /\ UNCHANGED sendVars

\* The mutant of FindBrowserStop: the browser is left subscribed.
FindBrowserStopSkipped ==
    /\ mainPc = "stop"
    /\ mainPc' = "open"
    /\ UNCHANGED <<browser, subscribed, discover, lock, probes, report, dumpPos,
                   interrupts, history>>
    /\ UNCHANGED sendVars

\* Line 224: self.browser.stop().
FindBrowserStop ==
    /\ mainPc = "stop"
    /\ subscribed' = FALSE
    /\ history' = Append(history, "stop")
    /\ mainPc' = "open"
    /\ UNCHANGED <<browser, discover, lock, probes, report, dumpPos, interrupts>>
    /\ UNCHANGED sendVars

\* Line 226: open(self.config.discovery_report, "w") truncates the file.
FindOpen ==
    /\ mainPc = "open"
    /\ report' = Truncated
    /\ dumpPos' = 0
    /\ history' = Append(history, "open")
    /\ mainPc' = "dump"
    /\ UNCHANGED <<browser, subscribed, discover, lock, probes, interrupts>>
    /\ UNCHANGED sendVars

\* The mutant of FindDump: one step of a dump that stops one record early.
FindDumpShort ==
    /\ mainPc = "dump"
    /\ IF dumpPos + 1 < Len(discover)
       THEN /\ report' = [report EXCEPT !.objs = Append(@, JsonObject(discover[dumpPos + 1]))]
            /\ dumpPos' = dumpPos + 1
            /\ UNCHANGED <<mainPc, history>>
       ELSE /\ report' = [report EXCEPT !.complete = TRUE]
            /\ history' = Append(history, "close")
            /\ mainPc' = "exit"
            /\ UNCHANGED dumpPos
    /\ UNCHANGED <<browser, subscribed, discover, lock, probes, interrupts>>
    /\ UNCHANGED sendVars

\* Line 227: json.dump(self.discover, f) iterates over the list and writes it
\* element by element; when the iterator is exhausted the array is closed and
\* the with block closes the file.
FindDump ==
    /\ mainPc = "dump"
    /\ IF dumpPos < Len(discover)
       THEN /\ report' = [report EXCEPT !.objs = Append(@, JsonObject(discover[dumpPos + 1]))]
            /\ dumpPos' = dumpPos + 1
            /\ UNCHANGED <<mainPc, history>>
       ELSE /\ report' = [report EXCEPT !.complete = TRUE]
            /\ history' = Append(history, "close")
            /\ mainPc' = "exit"
            /\ UNCHANGED dumpPos
    /\ UNCHANGED <<browser, subscribed, discover, lock, probes, interrupts>>
    /\ UNCHANGED sendVars

\* Lines 209-213: except KeyboardInterrupt: stop the browser if there is one.
ExceptKeyboardInterrupt ==
    /\ mainPc = "except"
    /\ IF browser # "None"
       THEN /\ subscribed' = FALSE
            /\ history' = Append(history, "stop")
       ELSE UNCHANGED <<subscribed, history>>
    /\ mainPc' = "exit"
    /\ UNCHANGED <<browser, discover, lock, probes, report, dumpPos, interrupts>>
    /\ UNCHANGED sendVars

----------------------------------------------------------------------------
(* The find specification.                                                 *)

SendIdle ==
    /\ sendPc = "idle"
    /\ receiver = None
    /\ infos = << >>
    /\ info = None
    /\ age = 0
    /\ outcome = "none"
    /\ sent = << >>
    /\ argsReceiver = None

\* Lines 134-139: no browser, an empty catalog, a free lock.
FindIdle ==
    /\ mainPc = "idle"
    /\ browser = "None"
    /\ subscribed = FALSE
    /\ discover = << >>
    /\ lock = 0
    /\ probes = << >>
    /\ dumpPos = 0
    /\ interrupts = 0
    /\ history = << >>

Init ==
    /\ FindIdle
    /\ report \in {NoFile, OldReport}
    /\ SendIdle

Next ==
    \/ FindCreate
    \/ FindStart
    \/ FindWait
    \/ KeyboardInterrupt
    \/ FindBrowserStop
    \/ FindOpen
    \/ FindDump
    \/ ExceptKeyboardInterrupt
    \/ \E k \in 1..Len(Infos) : FoundReceiver(k)
    \/ \E p \in 1..Len(probes) :
        \/ ProbeBegin(p)
        \/ ProbeDiscover(p)
        \/ ProbeIndex(p)
        \/ ProbeAcquire(p)
        \/ ProbeAppend(p)
        \/ ProbeLog(p)
        \/ ProbeRelease(p)

Spec == Init /\ [][Next]_vars

----------------------------------------------------------------------------
(* send: parsing and formatting integers, indexing lists.                  *)

Digits == <<"0", "1", "2", "3", "4", "5", "6", "7", "8", "9">>
IsDigit(c) == \E d \in 1..10 : Digits[d] = c
DigitValue(c) == (CHOOSE d \in 1..10 : Digits[d] = c) - 1

\* str(n), for n >= 0: the decimal digits of n.
RECURSIVE IntToStr(_)
IntToStr(n) ==
    IF n < 10 THEN <<Digits[n + 1]>>
    ELSE IntToStr(n \div 10) \o <<Digits[(n % 10) + 1]>>

\* s.strip(): without the blanks at both ends.
RECURSIVE StripLeft(_)
StripLeft(s) == IF s # << >> /\ Head(s) = " " THEN StripLeft(Tail(s)) ELSE s
RECURSIVE StripRight(_)
StripRight(s) ==
    IF s # << >> /\ s[Len(s)] = " " THEN StripRight(SubSeq(s, 1, Len(s) - 1)) ELSE s
Strip(s) == StripRight(StripLeft(s))

\* The digits of an integer literal: digits, single underscores between them.
IsLiteral(s) ==
    /\ s # << >>
    /\ IsDigit(s[1])
    /\ IsDigit(s[Len(s)])
    /\ \A k \in 1..Len(s) : IsDigit(s[k]) \/ s[k] = "_"
    /\ \A k \in 1..(Len(s) - 1) : ~(s[k] = "_" /\ s[k + 1] = "_")

RECURSIVE LiteralValue(_)
LiteralValue(s) ==
    IF s = << >> THEN 0
    ELSE IF s[Len(s)] = "_" THEN LiteralValue(SubSeq(s, 1, Len(s) - 1))
    ELSE 10 * LiteralValue(SubSeq(s, 1, Len(s) - 1)) + DigitValue(s[Len(s)])

ValueError == [t |-> "ValueError"]

\* int(s) for a str s: blanks around, an optional sign, an integer literal;
\* anything else raises ValueError.
IntParse(s) ==
    LET b == Strip(s)
        signed == b # << >> /\ b[1] \in {"+", "-"}
        body == IF signed THEN Tail(b) ELSE b
    IN  IF ~IsLiteral(body) THEN ValueError
        ELSE IF signed /\ b[1] = "-" THEN PyInt(0 - LiteralValue(body))
        ELSE PyInt(LiteralValue(body))

IndexError == [t |-> "IndexError"]

\* The mutant of ListIndex: negative indices are refused, and positions are
\* taken one too high.
ListIndexShifted(l, n) ==
    IF 0 <= n /\ n + 1 < Len(l) THEN l[n + 2]
    ELSE IndexError

\* l[n] for a list l: positions 0..len(l)-1, and -len(l)..-1 counted from the
\* end; anything else raises IndexError.  Every element is a dict here.
ListIndex(l, n) ==
    IF 0 <= n /\ n < Len(l) THEN l[n + 1]
    ELSE IF 0 - Len(l) <= n /\ n < 0 THEN l[Len(l) + n + 1]
    ELSE IndexError

\* The mutant of IdMatches: the name is compared instead of the id.
IdMatchesByName(l, tok) == {k \in 1..Len(l) : PyEq(l[k].name, tok)}

\* The positions of the elements of l whose id, or name, equals the token.
IdMatches(l, tok) == {k \in 1..Len(l) : PyEq(PyStr(l[k].id), tok)}
NameMatches(l, tok) == {k \in 1..Len(l) : PyEq(l[k].name, tok)}
First(S) == CHOOSE k \in S : \A m \in S : k <= m

----------------------------------------------------------------------------
(* send: _get_receiver_info and send.                                      *)

\* The staleness threshold of line 353, in seconds.
StaleAfter == 60

\* Lines 349-351: without a report the error is logged and None returned.
CheckExists ==
    /\ sendPc = "start"
    /\ IF ~report.exists
       THEN /\ sent' = Append(sent, "error: no discovery report")
            /\ outcome' = "MissingReport"
            /\ sendPc' = "returned"
       ELSE /\ sendPc' = "age"
            /\ UNCHANGED <<sent, outcome>>
    /\ UNCHANGED <<receiver, infos, info, age, argsReceiver, report>>
    /\ UNCHANGED findVars

\* The mutant of CheckAge: an old report is refused.
CheckAgeRefusesOld ==
    /\ sendPc = "age"
    /\ \E a \in {StaleAfter - 30, StaleAfter, StaleAfter + 1} :
        /\ age' = a
        /\ IF a > StaleAfter
           THEN /\ sent' = Append(sent, "warning: old discovery report")
                /\ outcome' = "StaleReport"
                /\ sendPc' = "returned"
           ELSE /\ sendPc' = "load"
                /\ UNCHANGED <<sent, outcome>>
    /\ UNCHANGED <<receiver, infos, info, argsReceiver, report>>
    /\ UNCHANGED findVars

\* Lines 352-356: the age of the report; beyond a minute a warning is logged.
CheckAge ==
    /\ sendPc = "age"
    /\ \E a \in {StaleAfter - 30, StaleAfter, StaleAfter + 1} :
        /\ age' = a
        /\ sent' = IF a > StaleAfter THEN Append(sent, "warning: old discovery report")
                   ELSE sent
    /\ sendPc' = "load"
    /\ UNCHANGED <<receiver, infos, info, outcome, argsReceiver, report>>
    /\ UNCHANGED findVars

\* Lines 357-358: json.load; a file that holds no complete JSON value raises
\* JSONDecodeError, which nothing catches.
LoadReport ==
    /\ sendPc = "load"
    /\ IF report.complete
       THEN /\ infos' = JsonLoad(report.objs)
            /\ sendPc' = "index"
            /\ UNCHANGED outcome
       ELSE /\ outcome' = "JSONDecodeError"
            /\ sendPc' = "raised"
            /\ UNCHANGED infos
    /\ UNCHANGED <<receiver, info, age, sent, argsReceiver, report>>
    /\ UNCHANGED findVars

\* Lines 361-367: self.receiver = int(self.receiver); return infos[...].
\* ValueError leaves self.receiver as it was; IndexError leaves it the int.
TryIndex ==
    /\ sendPc = "index"
    /\ LET n == IntParse(receiver.v) IN
       IF n = ValueError
       THEN /\ sendPc' = "id"
            /\ UNCHANGED <<receiver, info, outcome>>
       ELSE /\ receiver' = n
            /\ IF ListIndex(infos, n.v) = IndexError
               THEN /\ sendPc' = "id"
                    /\ UNCHANGED <<info, outcome>>
               ELSE /\ info' = ListIndex(infos, n.v)
                    /\ outcome' = "index"
                    /\ sendPc' = "returned"
    /\ UNCHANGED <<infos, age, sent, argsReceiver, report>>
    /\ UNCHANGED findVars

\* Lines 369-372: len(self.receiver) raises TypeError for an int, which
\* nothing catches; a str of 12 characters is looked up among the ids.
TryId ==
    /\ sendPc = "id"
    /\ IF receiver.t = "int"
       THEN /\ outcome' = "TypeError"
            /\ sendPc' = "raised"
            /\ UNCHANGED info
       ELSE IF Len(receiver.v) = 12 /\ IdMatches(infos, receiver) # {}
       THEN /\ info' = infos[First(IdMatches(infos, receiver))]
            /\ outcome' = "id"
            /\ sendPc' = "returned"
       ELSE /\ sendPc' = "name"
            /\ UNCHANGED <<info, outcome>>
    /\ UNCHANGED <<receiver, infos, age, sent, argsReceiver, report>>
    /\ UNCHANGED findVars

\* Lines 374-381: the lookup among the names; without a match the error is
\* logged and None returned.
TryName ==
    /\ sendPc = "name"
    /\ IF NameMatches(infos, receiver) # {}
       THEN /\ info' = infos[First(NameMatches(infos, receiver))]
            /\ outcome' = "name"
            /\ UNCHANGED sent
       ELSE /\ sent' = Append(sent, "error: receiver does not exist")
            /\ outcome' = "ReceiverNotFound"
            /\ UNCHANGED info
    /\ sendPc' = "returned"
    /\ UNCHANGED <<receiver, infos, age, argsReceiver, report>>
    /\ UNCHANGED findVars

\* The mutant of SendClient: the client is made without looking at info.
SendClientUnchecked ==
    /\ sendPc = "returned"
    /\ sent' = Append(sent, "client")
    /\ sendPc' = "ask"
    /\ UNCHANGED <<receiver, infos, info, age, outcome, argsReceiver, report>>
    /\ UNCHANGED findVars

\* Lines 331-335: send returns when there is no info, else makes the client.
SendClient ==
    /\ sendPc = "returned"
    /\ IF info = None
       THEN /\ sendPc' = "done"
            /\ UNCHANGED sent
       ELSE /\ sent' = Append(sent, "client")
            /\ sendPc' = "ask"
    /\ UNCHANGED <<receiver, infos, info, age, outcome, argsReceiver, report>>
    /\ UNCHANGED findVars

\* The mutant of SendAsk: the answer to the Ask request is not looked at.
SendAskIgnored ==
    /\ sendPc = "ask"
    /\ \E accepted \in BOOLEAN :
        sent' = Append(sent, IF accepted THEN "ask: accepted" ELSE "ask: declined")
    /\ sendPc' = "upload"
    /\ UNCHANGED <<receiver, infos, info, age, outcome, argsReceiver, report>>
    /\ UNCHANGED findVars

\* Lines 336-341: the Ask request; a declined one ends send.
SendAsk ==
    /\ sendPc = "ask"
    /\ \E accepted \in BOOLEAN :
        /\ sent' = Append(sent, IF accepted THEN "ask: accepted" ELSE "ask: declined")
        /\ sendPc' = IF accepted THEN "upload" ELSE "done"
    /\ UNCHANGED <<receiver, infos, info, age, outcome, argsReceiver, report>>
    /\ UNCHANGED findVars

\* Lines 342-346: the Upload request.
SendUpload ==
    /\ sendPc = "upload"
    /\ \E ok \in BOOLEAN :
        sent' = Append(sent, IF ok THEN "upload: ok" ELSE "upload: failed")
    /\ sendPc' = "done"
    /\ UNCHANGED <<receiver, infos, info, age, outcome, argsReceiver, report>>
    /\ UNCHANGED findVars

----------------------------------------------------------------------------
(* The send specification: every report and token of the sets below.       *)

Zeros1 == Rep("0", 11) \o <<"1">>

ReportIds == {Rep("a", 12), Rep("b", 12), Zeros1}
ReportNames == {None, PyStr(<<"B", "o", "b">>), PyStr(Rep("a", 12)), PyStr(<<"1">>)}

Records ==
    {[name |-> n, address |-> "fe80::1", port |-> 8770, id |-> i, flags |-> 1019,
      discoverable |-> (n # None)] : n \in ReportNames, i \in ReportIds}

RECURSIVE Lists(_, _)
Lists(S, n) ==
    IF n = 0 THEN {<< >>}
    ELSE Lists(S, n - 1) \cup
         {Append(l, x) : l \in {m \in Lists(S, n - 1) : Len(m) = n - 1}, x \in S}

JsonDump(l) == [k \in 1..Len(l) |-> JsonObject(l[k])]

\* A report of eleven records, for an index of two digits.
LongReport ==
    [k \in 1..11 |-> [name |-> PyStr(IntToStr(k)), address |-> "fe80::1", port |-> 8770,
                      id |-> Rep("c", 12), flags |-> 1019, discoverable |-> TRUE]]

SendReports ==
    {NoFile, Truncated, ReportFile(JsonDump(LongReport))}
        \cup {ReportFile(JsonDump(l)) : l \in Lists(Records, MaxReport)}

Tokens ==
    {IntToStr(i) : i \in 0..MaxReport} \cup
    {IntToStr(10), <<"-", "1">>, <<"-", "9">>, <<" ", "1">>, <<"1", "_", "0">>,
     Rep("a", 12), Zeros1, <<"-">> \o Zeros1, <<"B", "o", "b">>, <<"E", "v", "e">>, << >>}

InitSend ==
    /\ FindIdle
    /\ report \in SendReports
    /\ argsReceiver \in {PyStr(tok) : tok \in Tokens}
    /\ receiver = argsReceiver
    /\ sendPc = "start"
    /\ infos = << >>
    /\ info = None
    /\ age = 0
    /\ outcome = "none"
    /\ sent = << >>

NextSend ==
    \/ CheckExists
    \/ CheckAge
    \/ LoadReport
    \/ TryIndex
    \/ TryId
    \/ TryName
    \/ SendClient
    \/ SendAsk
    \/ SendUpload

SpecSend == InitSend /\ [][NextSend]_vars

----------------------------------------------------------------------------
(* Properties of find.                                                     *)

Threads == 1..Len(probes)
HasAddress(p) == Address(Infos[probes[p].info]) # "IndexError"
AllDone == \A p \in Threads : probes[p].pc = "done"
Flushed == history # << >> /\ history[Len(history)] = "close"
Aborted == \E k \in 1..Len(history) : history[k] = "abort"
IsPrefix(a, b) == Len(a) <= Len(b) /\ a = SubSeq(b, 1, Len(a))
CleanHistory == <<"start", "interrupt", "stop", "open", "close">>

\* C1: the index a probe reports in its "Found  index" line is the position
\* at which its record was appended to the catalog.
C1_FoundIndexIsPosition ==
    \A p \in Threads : probes[p].logged = "found" => probes[p].index = probes[p].pos

\* C2: when all the probes started so far have ended, the catalog holds one
\* record for each probe of a service with an address, the records of these
\* N probes are at the positions 0..N-1, each at its own, and each is the
\* record its probe built.
C2_OneRecordPerProbe ==
    AllDone =>
        LET W == {p \in Threads : HasAddress(p)} IN
        /\ Len(discover) = Cardinality(W)
        /\ {probes[p].pos : p \in W} = 0..(Cardinality(W) - 1)
        /\ \A p \in W : discover[probes[p].pos + 1] = NodeInfo(p)

\* Two probes of the same peer read the same length of the catalog before
\* either appended, and both have ended with their records in the catalog.
C2_Witness ==
    /\ AllDone
    /\ Len(probes) = MaxProbes
    /\ Len(discover) = MaxProbes
    /\ probes[1].info = probes[2].info
    /\ probes[1].index = probes[2].index

\* C9: the dump that ends find writes exactly the records the catalog holds
\* when it ends, in order, whatever the file held before; a record appended
\* after that never reaches the file; and the main thread's steps from the
\* interrupt to the end of the dump never wait for a probe.
C9_FlushNotSynchronized ==
    /\ [][(mainPc = "dump" /\ mainPc' = "exit")
            => report' = ReportFile(JsonDump(discover))]_vars
    /\ [][Flushed => report' = report]_vars
    /\ [](mainPc \in {"stop", "open", "dump"}
            => ENABLED (FindBrowserStop \/ FindOpen \/ FindDump))

\* The dump has ended over an earlier file, and a probe appended afterwards.
C9_Witness ==
    /\ Flushed
    /\ Len(report.objs) >= 1
    /\ Len(discover) > Len(report.objs)
    /\ report.objs = JsonDump(SubSeq(discover, 1, Len(report.objs)))

\* C10: a find run that is interrupted while it waits (and nowhere else) goes
\* through start, interrupt, browser stop, open and close of the report in
\* that order and ends there, so the report is written once; and in every run
\* the report is opened only after the browser was stopped, and never written
\* while the browser is subscribed.
C10_Lifecycle ==
    /\ ~Aborted => IsPrefix(history, CleanHistory)
    /\ (mainPc = "exit" /\ ~Aborted) => history = CleanHistory
    /\ mainPc = "dump" => ~subscribed
    /\ \A k \in 1..Len(history) :
        history[k] = "open" => \E m \in 1..(k - 1) : history[m] = "stop"

\* A run interrupted while waiting has ended, with a record in its report.
C10_Witness ==
    /\ mainPc = "exit"
    /\ history = CleanHistory
    /\ ~subscribed
    /\ report.complete
    /\ Len(report.objs) >= 1

----------------------------------------------------------------------------
(* Properties of send.                                                     *)

\* The report as loaded, and the token as given.
Loaded == JsonLoad(report.objs)
Token == argsReceiver.v
ResolveDone == sendPc \in {"returned", "raised", "ask", "upload", "done"}

\* The records of the report with a given id, or name.
WithId == {k \in 1..Len(Loaded) : Loaded[k].id = Token}
WithName == {k \in 1..Len(Loaded) : Loaded[k].name = argsReceiver}
Least(S) == CHOOSE k \in S : \A m \in S : k <= m

\* The tiers as the specification states them.
IndexTier == IntParse(Token) # ValueError /\ 0 <= IntParse(Token).v
                /\ IntParse(Token).v < Len(Loaded)
IdTier == Len(Token) = 12 /\ WithId # {}
NameTier == WithName # {}

\* C3: the token str(i), for a position i of the report, resolves to the
\* record at position i.
C3_IndexResolves ==
    \A i \in 0..(Len(report.objs) - 1) :
        (ResolveDone /\ report.complete /\ argsReceiver = PyStr(IntToStr(i)))
            => (outcome = "index" /\ info = Loaded[i + 1])

\* The token "10" has resolved to the eleventh record of an eleven-record report.
C3_Witness ==
    /\ ResolveDone
    /\ argsReceiver = PyStr(IntToStr(10))
    /\ Len(infos) = 11
    /\ outcome = "index"
    /\ info = infos[11]

\* C4, as claimed: a token of 12 characters that is the id of exactly one
\* record resolves to that record.
C4_IdResolvesAlways ==
    (ResolveDone /\ report.complete /\ Len(Token) = 12
        /\ Cardinality(WithId) = 1)
        => info = Loaded[Least(WithId)]

\* C4, amended: a token of 12 characters that does not parse as an integer
\* and is the id of exactly one record resolves to that record.
C4_IdResolvesUnlessInteger ==
    (ResolveDone /\ report.complete /\ Len(Token) = 12
        /\ IntParse(Token) = ValueError
        /\ Cardinality(WithId) = 1)
        => (outcome = "id" /\ info = Loaded[Least(WithId)])

\* A 12-character token has resolved to the second record by its id, although
\* it is also the name of the first.
C4_Witness ==
    /\ ResolveDone
    /\ outcome = "id"
    /\ Len(infos) = 2
    /\ argsReceiver = PyStr(Rep("a", 12))
    /\ infos[1].name = argsReceiver
    /\ infos[1].id # Token
    /\ info = infos[2]

\* C5: a token that matches no record by index, id or name ends in
\* ReceiverNotFound: the error is logged and None is returned.
C5_NoMatchIsNotFound ==
    (ResolveDone /\ report.complete /\ ~IndexTier /\ ~IdTier /\ ~NameTier)
        => (outcome = "ReceiverNotFound" /\ info = None)

\* C6: a token that parses as an integer outside the positions of the report
\* and equals some record's id (12 characters) or name resolves to the first
\* such record, the id tier before the name tier.
C6_OutOfRangeFallsThrough ==
    (ResolveDone /\ report.complete /\ IntParse(Token) # ValueError /\ ~IndexTier
        /\ (IdTier \/ NameTier))
        => info = IF IdTier THEN Loaded[Least(WithId)]
                  ELSE Loaded[Least(WithName)]

\* C7: a token that parses as a negative integer is never resolved by
\* position: it yields a record only through the id or the name tier, and
\* otherwise ends in ReceiverNotFound.
C7_NegativeNeverByPosition ==
    (ResolveDone /\ report.complete /\ IntParse(Token) # ValueError
        /\ IntParse(Token).v < 0)
        => /\ outcome # "index"
           /\ (~IdTier /\ ~NameTier) => (outcome = "ReceiverNotFound" /\ info = None)

\* C8: the tiers are tried in the order index, id, name, the first success is
\* returned, and within a tier the first matching record is.
C8_TierOrder ==
    (ResolveDone /\ report.complete) =>
        /\ IndexTier => (outcome = "index" /\ info = Loaded[IntParse(Token).v + 1])
        /\ (~IndexTier /\ IdTier)
            => (outcome = "id" /\ info = Loaded[Least(WithId)])
        /\ (~IndexTier /\ ~IdTier /\ NameTier)
            => (outcome = "name" /\ info = Loaded[Least(WithName)])

----------------------------------------------------------------------------
(* Properties of the probes.                                               *)

\* The announcement a probe was started for.
Announced(p) == Infos[probes[p].info]
NoAddress(p) == Announced(p).addresses = << >>
\* The flags property has the SUPPORTS_DISCOVER_MAYBE bit, or is absent.
MaybeSupportsDiscover(p) ==
    \/ "flags" \notin DOMAIN Announced(p).properties
    \/ (Announced(p).properties.flags \div SUPPORTS_DISCOVER_MAYBE) % 2 = 1
AfterDiscover == {"index", "acquire", "append", "log", "release", "done"}

\* C11: a probe whose discover request timed out goes on with no receiver
\* name, appends one record with name null and discoverable false, and ends;
\* the step in which the timeout happens changes nothing but that probe, and
\* when all probes have ended every probe of a service with an address has
\* its record in the catalog.
C11_TimeoutIsSoft ==
    /\ [](\A p \in Threads : probes[p].net = "timeout" =>
            /\ probes[p].pc \in AfterDiscover
            /\ probes[p].name = None
            /\ probes[p].pc = "done" => probes[p].pos >= 0
            /\ probes[p].pos >= 0 =>
                /\ discover[probes[p].pos + 1].name = None
                /\ discover[probes[p].pos + 1].discoverable = FALSE
                /\ discover[probes[p].pos + 1].id = SplitFirst(Announced(p).name))
    /\ [](AllDone => Len(discover) = Cardinality({p \in Threads : ~NoAddress(p)}))
    /\ [][\A p \in Threads :
            (probes[p].net # "timeout" /\ probes'[p].net = "timeout") =>
                /\ UNCHANGED <<mainPc, browser, subscribed, discover, lock, report>>
                /\ \A q \in Threads \ {p} : probes'[q] = probes[q]]_vars

\* A probe timed out and ended with its record at position 0; the other probe
\* found a name after that, and the run ended with both in the report.
C11_Witness ==
    /\ Len(probes) = 2
    /\ AllDone
    /\ probes[1].net = "timeout"
    /\ probes[1].pos = 0
    /\ probes[2].pos = 1
    /\ probes[2].logged = "found"
    /\ Flushed
    /\ Len(report.objs) = 2

\* C12: a probe of a service without an address ends in its first step with
\* a warning: it sends no discover request, appends no record, and that step
\* changes neither the catalog nor the main thread nor any other probe; it is
\* not run again.
C12_NoAddressIsDropped ==
    /\ [](\A p \in Threads : NoAddress(p) =>
            /\ probes[p].pc \in {"start", "done"}
            /\ probes[p].net = "none"
            /\ probes[p].pos = -1
            /\ probes[p].pc = "done" => probes[p].logged = "warning"
            /\ \A k \in 1..Len(discover) :
                discover[k].id # SplitFirst(Announced(p).name))
    /\ [][\A p \in Threads :
            (NoAddress(p) /\ probes'[p] # probes[p]) =>
                /\ probes[p].pc = "start"
                /\ probes'[p].pc = "done"
                /\ UNCHANGED <<mainPc, browser, subscribed, discover, lock, report>>
                /\ \A q \in Threads \ {p} : probes'[q] = probes[q]]_vars

\* A service without an address was dropped with a warning, the probe started
\* after it appended its record at position 0, and the run ended with it.
C12_Witness ==
    /\ Len(probes) = 2
    /\ AllDone
    /\ NoAddress(1)
    /\ probes[1].logged = "warning"
    /\ probes[2].pos = 0
    /\ Len(discover) = 1
    /\ Flushed
    /\ Len(report.objs) = 1

\* The probe is sending, or has sent, the discover request.
Contacted(p) == probes[p].pc = "discover" \/ probes[p].net # "none"

\* C13: a probe that has derived its flags (its service has an address, and
\* its first step is done) sends the discover request if and only if the
\* flags property has the SUPPORTS_DISCOVER_MAYBE bit or is absent; a peer
\* whose flags lack the bit is never contacted and gets a record with name
\* null and discoverable false; a peer without the flags property is probed
\* and has its record in the catalog when its probe has ended.
C13_ProbedIffMaybeSupported ==
    \A p \in Threads : (~NoAddress(p) /\ probes[p].pc # "start") =>
        /\ Contacted(p) <=> MaybeSupportsDiscover(p)
        /\ (~MaybeSupportsDiscover(p) /\ probes[p].pos >= 0) =>
            /\ discover[probes[p].pos + 1].name = None
            /\ discover[probes[p].pos + 1].discoverable = FALSE
        /\ ("flags" \notin DOMAIN Announced(p).properties /\ probes[p].pc = "done") =>
            /\ probes[p].net # "none"
            /\ probes[p].pos >= 0
            /\ discover[probes[p].pos + 1].id = SplitFirst(Announced(p).name)

\* A peer whose flags lack the bit has its record without having been
\* contacted, and a peer without flags was probed and has its record too.
C13_Witness ==
    /\ Len(probes) = 2
    /\ AllDone
    /\ Announced(1).properties = [flags |-> 1]
    /\ probes[1].net = "none"
    /\ probes[1].pos >= 0
    /\ "flags" \notin DOMAIN Announced(2).properties
    /\ probes[2].net = "returned"
    /\ probes[2].pos >= 0

\* C14: every record of the catalog is discoverable exactly when it has a
\* receiver name that is not empty.
C14_DiscoverableIffNamed ==
    \A k \in 1..Len(discover) :
        discover[k].discoverable
            <=> (discover[k].name # None /\ discover[k].name.v # << >>)

----------------------------------------------------------------------------
(* Properties of send, continued.                                          *)

\* C15: without a report file, send logs the error, gets None from
\* _get_receiver_info and returns: nothing is loaded, no client is made, no
\* Ask or Upload is sent, and no step creates or writes the file.
C15_MissingReportAborts ==
    /\ [](~report.exists =>
            /\ sendPc \in {"start", "returned", "done"}
            /\ info = None
            /\ infos = << >>
            /\ sendPc = "start" => sent = << >>
            /\ sendPc # "start" =>
                /\ outcome = "MissingReport"
                /\ sent = <<"error: no discovery report">>)
    /\ [][~report.exists => report' = report]_vars

\* send has ended for want of a report.
C15_Witness ==
    /\ sendPc = "done"
    /\ ~report.exists
    /\ outcome = "MissingReport"
    /\ sent = <<"error: no discovery report">>

\* What resolving the token against the report yields, whatever the age of
\* the report: how resolution ends, and the record returned.
Resolution ==
    IF IntParse(Token) # ValueError
    THEN LET n == IntParse(Token).v IN
         IF 0 <= n /\ n < Len(Loaded) THEN <<"index", Loaded[n + 1]>>
         ELSE IF n < 0 /\ 0 - Len(Loaded) <= n THEN <<"index", Loaded[Len(Loaded) + n + 1]>>
         ELSE <<"TypeError", None>>
    ELSE IF Len(Token) = 12 /\ WithId # {} THEN <<"id", Loaded[Least(WithId)]>>
    ELSE IF WithName # {} THEN <<"name", Loaded[Least(WithName)]>>
    ELSE <<"ReceiverNotFound", None>>

Warned == \E k \in 1..Len(sent) : sent[k] = "warning: old discovery report"

\* C16: the warning is logged exactly when the report is older than 60
\* seconds; whatever its age, a complete report is loaded as it is, and
\* resolution ends as the report and the token alone determine.
C16_StalenessIsAdvisory ==
    (report.exists /\ sendPc \notin {"start", "age"}) =>
        /\ Warned <=> age > 60
        /\ (report.complete /\ sendPc # "load") => infos = Loaded
        /\ (report.complete /\ ResolveDone) => <<outcome, info>> = Resolution

\* A report 61 seconds old was warned about, and the token resolved by id.
C16_Witness ==
    /\ age = 61
    /\ Warned
    /\ ResolveDone
    /\ outcome = "id"
    /\ Len(infos) = 2
    /\ info = infos[2]

----------------------------------------------------------------------------
(* Properties of the catalog and its lock.                                 *)

\* C17: every step leaves the catalog as it is or adds one record at its
\* end, so no record ever moves, changes or is replaced.
C17_AppendOnly ==
    [][\/ discover' = discover
       \/ /\ Len(discover') = Len(discover) + 1
          /\ SubSeq(discover', 1, Len(discover)) = discover]_vars

\* The catalog grew to two records, the second after the report was written.
C17_Witness ==
    /\ Flushed
    /\ Len(discover) = 2
    /\ Len(report.objs) = 1
    /\ AllDone

\* The probe is between lock.acquire() and lock.release().
HoldsLock(p) == probes[p].pc \in {"append", "log", "release"}

\* C18: at most one probe is between acquire and release, and it is the one
\* the lock records; a probe in its discover request does not hold the lock;
\* no step of the main thread or of the browser's callback changes the lock,
\* and none of them waits for it or for a probe.
C18_LockDiscipline ==
    /\ [](Cardinality({p \in Threads : HoldsLock(p)}) <= 1)
    /\ [](\A p \in Threads : HoldsLock(p) <=> lock = p)
    /\ [](\A p \in Threads : probes[p].pc = "discover" => lock # p)
    /\ [][(mainPc' # mainPc \/ Len(probes') # Len(probes) \/ report' # report)
            => lock' = lock]_vars
    /\ []((subscribed /\ Len(probes) < MaxProbes) => ENABLED FoundReceiver(1))
    /\ [](mainPc \in {"stop", "open", "dump"}
            => ENABLED (FindBrowserStop \/ FindOpen \/ FindDump))

\* One probe holds the lock, the other waits for it, and the main thread is
\* writing the report.
C18_Witness ==
    /\ Len(probes) = 2
    /\ lock = 1
    /\ probes[1].pc = "append"
    /\ probes[2].pc = "acquire"
    /\ mainPc = "dump"

----------------------------------------------------------------------------
(* Termination of the probes.                                              *)

\* Lines 229-231: each probe is a started thread, which the interpreter keeps
\* scheduling, and its discover request returns or times out.
ProbeStep(p) ==
    /\ p <= Len(probes)
    /\ \/ ProbeBegin(p)
       \/ ProbeDiscover(p)
       \/ ProbeIndex(p)
       \/ ProbeAcquire(p)
       \/ ProbeAppend(p)
       \/ ProbeLog(p)
       \/ ProbeRelease(p)

SpecFair == Spec /\ \A p \in 1..MaxProbes : WF_vars(ProbeStep(p))

\* Where probe p is, "unborn" before the browser's callback started it.
PcOf(p) == IF p <= Len(probes) THEN probes[p].pc ELSE "unborn"

\* C19: every started probe ends; one for a service with an address ends with
\* its one record in the catalog; a probe that waits for the lock gets it, the
\* lock is always released again, and it is free when all probes have ended.
C19_ProbesTerminate ==
    /\ \A p \in 1..MaxProbes :
        /\ [](PcOf(p) # "unborn" => <>(PcOf(p) = "done"))
        /\ [](PcOf(p) = "acquire" => <>(lock = p))
        /\ [](lock = p => <>(lock # p))
    /\ [](\A p \in Threads :
            (probes[p].pc = "done" /\ ~NoAddress(p)) =>
                /\ probes[p].pos \in 0..(Len(discover) - 1)
                /\ Cardinality({q \in Threads : probes[q].pos = probes[p].pos}) = 1)
    /\ [](AllDone => lock = 0)
    /\ [](Len(discover) = Cardinality({p \in Threads : probes[p].pos >= 0}))

\* Two probes that contended (both read the same length before either
\* appended) have ended, each with its record, and the lock is free.
C19_Witness ==
    /\ Len(probes) >= 2
    /\ AllDone
    /\ lock = 0
    /\ probes[1].index = probes[2].index
    /\ probes[1].pos >= 0
    /\ probes[2].pos >= 0
    /\ probes[1].pos # probes[2].pos

----------------------------------------------------------------------------
(* The order of the requests of send.                                      *)

Requests == {"client", "ask: accepted", "ask: declined", "upload: ok", "upload: failed"}
IsRequest(e) == e \in Requests
Exchanges == SelectSeq(sent, IsRequest)

\* The complete exchanges send can have with a receiver.
LegalExchanges ==
    {<<"client", "ask: declined">>,
     <<"client", "ask: accepted", "upload: ok">>,
     <<"client", "ask: accepted", "upload: failed">>}

\* C20: the requests of send are a client for the resolved record, then one
\* Ask, then one Upload only when the Ask was accepted; nothing is sent unless
\* the token resolved to a record of the report, and that record stays the
\* same from the Ask to the Upload.
C20_ExchangeOrder ==
    /\ [](\E full \in LegalExchanges : IsPrefix(Exchanges, full))
    /\ [](Exchanges # << >> =>
            /\ outcome \in {"index", "id", "name"}
            /\ \E k \in 1..Len(Loaded) : info = Loaded[k])
    /\ [](sendPc = "done" => Exchanges = << >> \/ Exchanges \in LegalExchanges)
    /\ [][Exchanges' # Exchanges =>
            /\ info' = info
            /\ info # None
            /\ Len(Exchanges') = Len(Exchanges) + 1]_vars

\* An accepted Ask was followed by an Upload, to the resolved record.
C20_Witness ==
    /\ sendPc = "done"
    /\ info # None
    /\ Exchanges = <<"client", "ask: accepted", "upload: ok">>

====
